---- MODULE Spec2Model ----
(***************************************************************************)
(* The configuration module of ARL-Net (src/config__init__.py): four       *)
(* dataclasses (FirebaseConfig, TradingConfig, RLConfig,                   *)
(* NeuroevolutionConfig), three of them with a visible validate() method.  *)
(*                                                                         *)
(* The state is the process environment (os.environ), the set of paths    *)
(* that exist on disk, one configuration object held by the caller, the   *)
(* record of how that object was constructed, and the outcome of the last *)
(* validate() call on it.                                                  *)
(*                                                                         *)
(* Numbers are Python floats and ints.  A number is a record               *)
(* [nan, v]: v counts thousandths (0.1 is 100, 1 is 1000, 10000.0 is      *)
(* 10000000), and nan marks float("nan"), for which every ordered          *)
(* comparison of Python is False.                                          *)
(***************************************************************************)
EXTENDS Integers, Sequences, FiniteSets, TLC

VARIABLES environ, files, cfg, built, result

vars == <<environ, files, cfg, built, result>>

---------------------------------------------------------------------------
(* Bounds of the model.                                                    *)

\* Explicit numeric arguments are k * 0.5 for k in -1 .. MaxK, and nan.
MaxK == 3

\* Explicit integer arguments are -1 .. MaxInt.
MaxInt == 1

---------------------------------------------------------------------------
(* Python floats.                                                          *)

Flt(n) == [nan |-> FALSE, v |-> n]
NaN == [nan |-> TRUE, v |-> 0]

\* a <= b and a < b on floats: False as soon as one side is nan.
Le(a, b) == ~a.nan /\ ~b.nan /\ a.v <= b.v
Lt(a, b) == ~a.nan /\ ~b.nan /\ a.v < b.v

---------------------------------------------------------------------------
(* The environment and the file system.                                    *)

EnvNames == {"FIREBASE_PROJECT_ID", "FIREBASE_CREDENTIAL_PATH", "FIREBASE_DATABASE_URL"}

\* The strings a variable is set to in the model.
EnvValues(name) ==
    CASE name = "FIREBASE_PROJECT_ID" -> {"", "my-project"}
      [] name = "FIREBASE_CREDENTIAL_PATH" -> {"/secrets/fb.json"}
      [] name = "FIREBASE_DATABASE_URL" -> {"https://db.example"}

Paths == {"./config/firebase_credentials.json", "/secrets/fb.json"}

\* Mutant of getenv: the lookup uses a name that is never set.
getenv_wrongName(name, default) == default

\* Mutant of getenv: os.getenv(name) or default, which also replaces "".
getenv_orDefault(name, default) ==
    IF name \in DOMAIN environ /\ environ[name] # "" THEN environ[name] ELSE default

\* os.getenv(name, default): os.environ is a dict, a variable is set when it
\* is a key of it.
getenv(name, default) ==
    IF name \in DOMAIN environ THEN environ[name] ELSE default

\* os.path.exists(path)
exists(path) == path \in files

---------------------------------------------------------------------------
(* The dataclasses.  kw is the constructor's keyword arguments, a function *)
(* from the names of the fields passed explicitly to their values; a field *)
(* that is not passed gets its default, or the result of its               *)
(* default_factory, which runs inside the constructor.                     *)

\* Mutant of Arg: the default_factory runs even when the field is passed.
Arg_defaultWins(kw, f, default) == default

Arg(kw, f, default) == IF f \in DOMAIN kw THEN kw[f] ELSE default

\* Mutant of FirebaseConfig: database_url reads FIREBASE_PROJECT_ID.
FirebaseConfig_copiedName(kw) ==
    [kind |-> "FirebaseConfig",
     project_id |-> Arg(kw, "project_id", getenv("FIREBASE_PROJECT_ID", "arl-net-default")),
     credential_path |-> Arg(kw, "credential_path",
                             getenv("FIREBASE_CREDENTIAL_PATH", "./config/firebase_credentials.json")),
     database_url |-> Arg(kw, "database_url", getenv("FIREBASE_PROJECT_ID", "")),
     collection_prefix |-> Arg(kw, "collection_prefix", "arl_net_")]

FirebaseConfig(kw) ==
    [kind |-> "FirebaseConfig",
     project_id |-> Arg(kw, "project_id", getenv("FIREBASE_PROJECT_ID", "arl-net-default")),
     credential_path |-> Arg(kw, "credential_path",
                             getenv("FIREBASE_CREDENTIAL_PATH", "./config/firebase_credentials.json")),
     database_url |-> Arg(kw, "database_url", getenv("FIREBASE_DATABASE_URL", "")),
     collection_prefix |-> Arg(kw, "collection_prefix", "arl_net_")]

\* Mutant of TradingConfig: initial_balance defaults to 1000.0.
TradingConfig_otherBalance(kw) ==
    [kind |-> "TradingConfig",
     initial_balance |-> Arg(kw, "initial_balance", Flt(1000000)),
     max_position_size |-> Arg(kw, "max_position_size", Flt(100)),
     transaction_cost |-> Arg(kw, "transaction_cost", Flt(1)),
     risk_free_rate |-> Arg(kw, "risk_free_rate", Flt(20)),
     max_drawdown |-> Arg(kw, "max_drawdown", Flt(200)),
     stop_loss_pct |-> Arg(kw, "stop_loss_pct", Flt(50)),
     take_profit_pct |-> Arg(kw, "take_profit_pct", Flt(100))]

TradingConfig(kw) ==
    [kind |-> "TradingConfig",
     initial_balance |-> Arg(kw, "initial_balance", Flt(10000000)),
     max_position_size |-> Arg(kw, "max_position_size", Flt(100)),
     transaction_cost |-> Arg(kw, "transaction_cost", Flt(1)),
     risk_free_rate |-> Arg(kw, "risk_free_rate", Flt(20)),
     max_drawdown |-> Arg(kw, "max_drawdown", Flt(200)),
     stop_loss_pct |-> Arg(kw, "stop_loss_pct", Flt(50)),
     take_profit_pct |-> Arg(kw, "take_profit_pct", Flt(100))]

RLConfig(kw) ==
    [kind |-> "RLConfig",
     gamma |-> Arg(kw, "gamma", Flt(990)),
     learning_rate |-> Arg(kw, "learning_rate", Flt(1)),
     buffer_size |-> Arg(kw, "buffer_size", Flt(10000000)),
     batch_size |-> Arg(kw, "batch_size", Flt(64000)),
     tau |-> Arg(kw, "tau", Flt(5)),
     ppo_epochs |-> Arg(kw, "ppo_epochs", Flt(10000)),
     clip_epsilon |-> Arg(kw, "clip_epsilon", Flt(200)),
     entropy_coef |-> Arg(kw, "entropy_coef", Flt(10))]

NeuroevolutionConfig(kw) ==
    [kind |-> "NeuroevolutionConfig",
     population_size |-> Arg(kw, "population_size", Flt(50000)),
     mutation_rate |-> Arg(kw, "mutation_rate", Flt(100)),
     crossover_rate |-> Arg(kw, "crossover_rate", Flt(700)),
     elitism_count |-> Arg(kw, "elitism_count", Flt(2000)),
     add_node_rate |-> Arg(kw, "add_node_rate", Flt(30)),
     add_connection_rate |-> Arg(kw, "add_connection_rate", Flt(50)),
     remove_node_rate |-> Arg(kw, "remove_node_rate", Flt(10)),
     max_hidden_layers |-> Arg(kw, "max_hidden_layers", Flt(5000)),
     max_nodes_per_layer |-> Arg(kw, "max_nodes_per_layer", Flt(128000)),
     min_nodes_per_layer |-> Arg(kw, "min_nodes_per_layer", Flt(4000))]

Kinds == {"FirebaseConfig", "TradingConfig", "RLConfig", "NeuroevolutionConfig"}

New(kind, kw) ==
    CASE kind = "FirebaseConfig" -> FirebaseConfig(kw)
      [] kind = "TradingConfig" -> TradingConfig(kw)
      [] kind = "RLConfig" -> RLConfig(kw)
      [] kind = "NeuroevolutionConfig" -> NeuroevolutionConfig(kw)

---------------------------------------------------------------------------
(* validate(): what the call does, as the exception it raises or a normal  *)
(* return.                                                                 *)

Returned == [exc |-> "None", msg |-> ""]
Raise(exc, msg) == [exc |-> exc, msg |-> msg]
NotCalled == [exc |-> "not called", msg |-> ""]

\* Mutant of FirebaseConfig.validate: the credential path is checked first.
FirebaseConfig_validate_pathFirst(self) ==
    IF ~exists(self.credential_path)
    THEN Raise("FileNotFoundError",
               "Firebase credentials not found at: " \o self.credential_path)
    ELSE IF self.project_id = ""
    THEN Raise("ValueError", "Firebase project_id must be configured")
    ELSE Returned

\* Mutant of FirebaseConfig.validate: the path check lost its "not".
FirebaseConfig_validate_noNot(self) ==
    IF self.project_id = ""
    THEN Raise("ValueError", "Firebase project_id must be configured")
    ELSE IF exists(self.credential_path)
    THEN Raise("FileNotFoundError",
               "Firebase credentials not found at: " \o self.credential_path)
    ELSE Returned

FirebaseConfig_validate(self) ==
    IF self.project_id = ""
    THEN Raise("ValueError", "Firebase project_id must be configured")
    ELSE IF ~exists(self.credential_path)
    THEN Raise("FileNotFoundError",
               "Firebase credentials not found at: " \o self.credential_path)
    ELSE Returned

TradingConfig_validate(self) ==
    IF Le(self.initial_balance, Flt(0))
    THEN Raise("ValueError", "Initial balance must be positive")
    ELSE IF ~(Le(Flt(0), self.max_position_size) /\ Le(self.max_position_size, Flt(1000)))
    THEN Raise("ValueError", "Max position size must be between 0 and 1")
    ELSE IF Lt(self.transaction_cost, Flt(0))
    THEN Raise("ValueError", "Transaction cost cannot be negative")
    ELSE Returned

RLConfig_validate(self) ==
    IF ~(Le(Flt(0), self.gamma) /\ Le(self.gamma, Flt(1000)))
    THEN Raise("ValueError", "Gamma must be between 0 and 1")
    ELSE IF Le(self.learning_rate, Flt(0))
    THEN Raise("ValueError", "Learning rate must be positive")
    ELSE IF Le(self.buffer_size, Flt(0))
    THEN Raise("ValueError", "Buffer size must be positive")
    ELSE Returned

\* NeuroevolutionConfig.validate is cut off in the source after its first
\* check; it is not modelled.
Validated == {"FirebaseConfig", "TradingConfig", "RLConfig"}

validate(self) ==
    CASE self.kind = "FirebaseConfig" -> FirebaseConfig_validate(self)
      [] self.kind = "TradingConfig" -> TradingConfig_validate(self)
      [] self.kind = "RLConfig" -> RLConfig_validate(self)

---------------------------------------------------------------------------
(* The inputs of the model.                                                *)

FloatArgs == {Flt(k * 500) : k \in -1 .. MaxK} \cup {NaN}
IntArgs == {Flt(k * 1000) : k \in -1 .. MaxInt}

\* The fields the model passes explicitly or assigns, with the values tried.
ArgFields(kind) ==
    CASE kind = "None" -> {}
      [] kind = "FirebaseConfig" -> {"project_id", "credential_path", "database_url", "collection_prefix"}
      [] kind = "TradingConfig" -> {"initial_balance", "max_position_size", "transaction_cost"}
      [] kind = "RLConfig" -> {"gamma", "learning_rate", "buffer_size"}
      [] kind = "NeuroevolutionConfig" -> {"population_size"}

ArgValues(f) ==
    CASE f = "project_id" -> {"", "my-project"}
      [] f = "credential_path" -> {"/secrets/fb.json"}
      [] f = "database_url" -> {"https://db.example"}
      [] f = "collection_prefix" -> {"test_"}
      [] f \in {"buffer_size", "population_size"} -> IntArgs
      [] OTHER -> FloatArgs

AllArgFields == UNION {ArgFields(kind) : kind \in Kinds}

ArgUniverse(kind) == UNION {ArgValues(f) : f \in ArgFields(kind)}

Kwargs(kind) ==
    UNION {{kw \in [S -> ArgUniverse(kind)] : \A f \in S : kw[f] \in ArgValues(f)} :
           S \in SUBSET ArgFields(kind)}

NoKwargs == << >>

---------------------------------------------------------------------------
(* The state machine.                                                      *)

None == [kind |-> "None"]

\* The module has been imported: load_dotenv() has merged the .env file into
\* os.environ, which is then any environment.  No configuration object exists.
Init ==
    /\ environ \in UNION {{e \in [S -> UNION {EnvValues(n) : n \in EnvNames}] :
                              \A n \in S : e[n] \in EnvValues(n)} : S \in SUBSET EnvNames}
    /\ files \in SUBSET Paths
    /\ cfg = None
    /\ built = None
    /\ result = NotCalled

\* os.environ[name] = value
Putenv(name, value) ==
    /\ environ' = [n \in DOMAIN environ \cup {name} |-> IF n = name THEN value ELSE environ[n]]
    /\ UNCHANGED <<files, cfg, built, result>>

\* del os.environ[name]
Unsetenv(name) ==
    /\ name \in DOMAIN environ
    /\ environ' = [n \in DOMAIN environ \ {name} |-> environ[n]]
    /\ UNCHANGED <<files, cfg, built, result>>

\* cfg = Kind(**kw): the generated __init__ of the dataclass.  built records
\* the call: its arguments and the environment it ran in.
Construct(kind, kw) ==
    /\ cfg' = New(kind, kw)
    /\ built' = [kw |-> kw, env |-> environ]
    /\ result' = NotCalled
    /\ UNCHANGED <<environ, files>>

\* Mutant of Validate: an object that fails its checks is reset to the
\* defaults and the call returns.
Validate_correcting ==
    /\ cfg.kind \in Validated
    /\ result' = Returned
    /\ cfg' = IF validate(cfg) = Returned THEN cfg ELSE New(cfg.kind, NoKwargs)
    /\ UNCHANGED <<environ, files, built>>

\* cfg.validate(), the exception it raises caught by the caller.
Validate ==
    /\ cfg.kind \in Validated
    /\ result' = validate(cfg)
    /\ UNCHANGED <<environ, files, cfg, built>>

\* cfg.field = value: the dataclasses are declared without frozen=True, so
\* the generated class keeps object.__setattr__.  The object is no longer as
\* constructed.
SetAttr(f, value) ==
    /\ cfg # None
    /\ f \in ArgFields(cfg.kind)
    /\ cfg' = [cfg EXCEPT ![f] = value]
    /\ built' = None
    /\ UNCHANGED <<environ, files, result>>

\* The constructor calls of the environment study: FirebaseConfig with any
\* arguments, the other groups with none.
EnvKwargs(kind) == IF kind = "FirebaseConfig" THEN Kwargs(kind) ELSE {NoKwargs}

Next ==
    \/ \E n \in EnvNames : \E v \in EnvValues(n) : Putenv(n, v)
    \/ \E n \in EnvNames : Unsetenv(n)
    \/ \E kind \in Kinds : \E kw \in EnvKwargs(kind) : Construct(kind, kw)
    \/ Validate
    \/ \E f \in AllArgFields : \E v \in ArgValues(f) : SetAttr(f, v)

Spec == Init /\ [][Next]_vars

\* validate() over field values: every group is constructed with any
\* arguments, in a process that starts with no FIREBASE_* variable set and
\* does not change its environment.
InitValidate == Init /\ environ = << >>

NextValidate ==
    \/ \E kind \in Kinds : \E kw \in Kwargs(kind) : Construct(kind, kw)
    \/ Validate
    \/ \E f \in AllArgFields : \E v \in ArgValues(f) : SetAttr(f, v)

SpecValidate == InitValidate /\ [][NextValidate]_vars

---------------------------------------------------------------------------
(* Vocabulary of the claims.                                               *)

\* A number lies in a range of the reals; nan lies in none.
Positive(x) == ~x.nan /\ x.v > 0
NonNegative(x) == ~x.nan /\ x.v >= 0
InUnitInterval(x) == ~x.nan /\ 0 <= x.v /\ x.v <= 1000

\* Every range-checked field lies in its declared range.
InDeclaredRanges(c) ==
    CASE c.kind = "TradingConfig" ->
           /\ Positive(c.initial_balance)
           /\ InUnitInterval(c.max_position_size)
           /\ NonNegative(c.transaction_cost)
      [] c.kind = "RLConfig" ->
           /\ InUnitInterval(c.gamma)
           /\ Positive(c.learning_rate)
           /\ Positive(c.buffer_size)
      [] OTHER -> TRUE

RangeChecked(c) ==
    CASE c.kind = "TradingConfig" -> {c.initial_balance, c.max_position_size, c.transaction_cost}
      [] c.kind = "RLConfig" -> {c.gamma, c.learning_rate, c.buffer_size}
      [] OTHER -> {}

\* The step binds a new object to cfg.
Rebind == built' # None /\ Construct(cfg'.kind, built'.kw)

---------------------------------------------------------------------------
(* C1.  TradingConfig.validate() and RLConfig.validate() return normally   *)
(* exactly when every range-checked field lies in its declared range, and  *)
(* raise ValueError for every other combination of values.                 *)
C1_ValidateIffInRange ==
    [][(Validate /\ cfg.kind \in {"TradingConfig", "RLConfig"}) =>
         IF InDeclaredRanges(cfg) THEN result' = Returned
                                  ELSE result'.exc = "ValueError"]_vars

\* C1, for the field values that are numbers: the same statement holds when
\* no range-checked field is nan.
C1_ValidateIffInRange_Numbers ==
    [][(Validate /\ cfg.kind \in {"TradingConfig", "RLConfig"}
                 /\ \A x \in RangeChecked(cfg) : ~x.nan) =>
         IF InDeclaredRanges(cfg) THEN result' = Returned
                                  ELSE result'.exc = "ValueError"]_vars

---------------------------------------------------------------------------
(* C2.  FirebaseConfig.validate() raises FileNotFoundError when the        *)
(* credential path does not exist and returns normally when it exists,     *)
(* whatever the other fields hold.                                         *)
C2_PathDecidesValidation ==
    [][(Validate /\ cfg.kind = "FirebaseConfig") =>
         IF cfg.credential_path \in files THEN result' = Returned
                                          ELSE result'.exc = "FileNotFoundError"]_vars

\* C2 as amended: the same for every FirebaseConfig whose project_id is not
\* empty, whatever its database_url and collection_prefix are; with an empty
\* project_id validate() raises ValueError whether or not the path exists.
C2_PathDecidesValidation_ProjectSet ==
    [][(Validate /\ cfg.kind = "FirebaseConfig") =>
         IF cfg.project_id = "" THEN result'.exc = "ValueError"
         ELSE IF cfg.credential_path \in files THEN result' = Returned
         ELSE result'.exc = "FileNotFoundError"]_vars

C2_Witness ==
    /\ cfg.kind = "FirebaseConfig"
    /\ built # None
    /\ cfg.project_id # ""
    /\ cfg.credential_path \notin files
    /\ result.exc = "FileNotFoundError"

---------------------------------------------------------------------------
(* C6.  Once validate() has succeeded on an object, no later operation     *)
(* changes any of its fields.                                              *)
C6_ReadOnlyAfterValidate ==
    [][(cfg.kind \in Validated /\ result = Returned /\ ~Rebind) => cfg' = cfg]_vars

---------------------------------------------------------------------------
---------------------------------------------------------------------------
(* C8.  A failing validate() raises one error, that of the first check in  *)
(* source order whose condition fires; later checks play no part.          *)
(* FirebaseConfig checks project_id before credential_path, so an empty    *)
(* project_id with a missing credential file gives the ValueError.         *)

\* The checks of each group in source order, each with the error it names.
ChecksInOrder(c) ==
    CASE c.kind = "FirebaseConfig" ->
           << [fires |-> c.project_id = "",
               error |-> Raise("ValueError", "Firebase project_id must be configured")],
              [fires |-> c.credential_path \notin files,
               error |-> Raise("FileNotFoundError",
                               "Firebase credentials not found at: " \o c.credential_path)] >>
      [] c.kind = "TradingConfig" ->
           << [fires |-> Le(c.initial_balance, Flt(0)),
               error |-> Raise("ValueError", "Initial balance must be positive")],
              [fires |-> ~(Le(Flt(0), c.max_position_size) /\ Le(c.max_position_size, Flt(1000))),
               error |-> Raise("ValueError", "Max position size must be between 0 and 1")],
              [fires |-> Lt(c.transaction_cost, Flt(0)),
               error |-> Raise("ValueError", "Transaction cost cannot be negative")] >>
      [] c.kind = "RLConfig" ->
           << [fires |-> ~(Le(Flt(0), c.gamma) /\ Le(c.gamma, Flt(1000))),
               error |-> Raise("ValueError", "Gamma must be between 0 and 1")],
              [fires |-> Le(c.learning_rate, Flt(0)),
               error |-> Raise("ValueError", "Learning rate must be positive")],
              [fires |-> Le(c.buffer_size, Flt(0)),
               error |-> Raise("ValueError", "Buffer size must be positive")] >>

C8_FirstViolatedCheck ==
    [][Validate =>
         LET checks == ChecksInOrder(cfg)
             firing == {i \in DOMAIN checks : checks[i].fires}
         IN  IF firing = {} THEN result' = Returned
             ELSE \E i \in firing :
                    /\ \A j \in firing : i <= j
                    /\ result' = checks[i].error]_vars

C8_Witness ==
    /\ cfg.kind = "FirebaseConfig"
    /\ built # None
    /\ cfg.project_id = ""
    /\ cfg.credential_path \notin files
    /\ result = Raise("ValueError", "Firebase project_id must be configured")

---------------------------------------------------------------------------
(* Vocabulary of the claims about the environment.                         *)

\* The value a variable has in an environment, or a default when unset.
ValueAt(env, name, default) == IF name \in DOMAIN env THEN env[name] ELSE default

\* The fields documented as backed by the environment: field, variable and
\* fallback literal.
EnvBacked ==
    { <<"project_id", "FIREBASE_PROJECT_ID", "arl-net-default">>,
      <<"credential_path", "FIREBASE_CREDENTIAL_PATH", "./config/firebase_credentials.json">>,
      <<"database_url", "FIREBASE_DATABASE_URL", "">> }

StringFields == {"project_id", "credential_path", "database_url", "collection_prefix"}

FieldsOf(c) == DOMAIN c \ {"kind"}

\* The literal defaults as the source text gives them.
LiteralDefaults(kind) ==
    CASE kind = "FirebaseConfig" ->
           [project_id |-> "arl-net-default",
            credential_path |-> "./config/firebase_credentials.json",
            database_url |-> "", collection_prefix |-> "arl_net_"]
      [] kind = "TradingConfig" ->
           [initial_balance |-> Flt(10000000), max_position_size |-> Flt(100),
            transaction_cost |-> Flt(1), risk_free_rate |-> Flt(20),
            max_drawdown |-> Flt(200), stop_loss_pct |-> Flt(50),
            take_profit_pct |-> Flt(100)]
      [] kind = "RLConfig" ->
           [gamma |-> Flt(990), learning_rate |-> Flt(1), buffer_size |-> Flt(10000000),
            batch_size |-> Flt(64000), tau |-> Flt(5), ppo_epochs |-> Flt(10000),
            clip_epsilon |-> Flt(200), entropy_coef |-> Flt(10)]
      [] kind = "NeuroevolutionConfig" ->
           [population_size |-> Flt(50000), mutation_rate |-> Flt(100),
            crossover_rate |-> Flt(700), elitism_count |-> Flt(2000),
            add_node_rate |-> Flt(30), add_connection_rate |-> Flt(50),
            remove_node_rate |-> Flt(10), max_hidden_layers |-> Flt(5000),
            max_nodes_per_layer |-> Flt(128000), min_nodes_per_layer |-> Flt(4000)]

\* cfg was constructed with no arguments and not assigned to since.
NoArgObject == built # None /\ built.kw = NoKwargs

---------------------------------------------------------------------------
(* C3.  Every field of every group has an environment variable that        *)
(* overrides it: set before construction, the no-argument constructor      *)
(* yields the variable's value; unset, the field gets its literal default. *)
(* A numeric field holds no string, so no variable set to one of the       *)
(* strings of the model can be its value.                                  *)
C3_EveryFieldOverridable ==
    NoArgObject =>
      \A f \in FieldsOf(cfg) : \E n \in EnvNames :
         IF n \in DOMAIN built.env
         THEN f \in StringFields /\ cfg[f] = built.env[n]
         ELSE cfg[f] = LiteralDefaults(cfg.kind)[f]

\* C3 as amended: project_id, credential_path and database_url of
\* FirebaseConfig are overridden by FIREBASE_PROJECT_ID,
\* FIREBASE_CREDENTIAL_PATH and FIREBASE_DATABASE_URL; every other field of
\* every group gets its literal default whatever the environment holds.
C3_FirebaseFieldsOverridable ==
    NoArgObject =>
      /\ cfg.kind = "FirebaseConfig" =>
           \A t \in EnvBacked :
              IF t[2] \in DOMAIN built.env THEN cfg[t[1]] = built.env[t[2]]
                                           ELSE cfg[t[1]] = t[3]
      /\ \A f \in FieldsOf(cfg) \ {t[1] : t \in EnvBacked} :
           cfg[f] = LiteralDefaults(cfg.kind)[f]

C3_Witness ==
    /\ NoArgObject
    /\ cfg.kind = "FirebaseConfig"
    /\ DOMAIN built.env = EnvNames
    /\ cfg.project_id = "my-project"
    /\ cfg.credential_path = "/secrets/fb.json"
    /\ cfg.database_url = "https://db.example"
    /\ cfg.collection_prefix = "arl_net_"

---------------------------------------------------------------------------
(* C4.  An override changes its own field and no other: when two no-       *)
(* argument constructions of the same group run in environments that       *)
(* differ in at most one FIREBASE_* variable, the two objects agree on     *)
(* every field but the one that variable backs (on every field, for the    *)
(* groups that are not FirebaseConfig).                                    *)
SameExcept(e1, e2, n) ==
    \A m \in EnvNames \ {n} :
       /\ (m \in DOMAIN e1) = (m \in DOMAIN e2)
       /\ m \in DOMAIN e1 => e1[m] = e2[m]

BackedBy(n) == {t[1] : t \in {u \in EnvBacked : u[2] = n}}

C4_OverrideChangesOnlyItsField ==
    [][(NoArgObject /\ Construct(cfg.kind, NoKwargs)) =>
         \A n \in EnvNames :
            SameExcept(built.env, environ, n) =>
               \A f \in FieldsOf(cfg) \ BackedBy(n) : cfg'[f] = cfg[f]]_vars

C4_Witness ==
    /\ NoArgObject
    /\ cfg.kind = "FirebaseConfig"
    /\ DOMAIN built.env = {"FIREBASE_PROJECT_ID"}
    /\ cfg.project_id = "my-project"
    /\ cfg.credential_path = "./config/firebase_credentials.json"
    /\ cfg.database_url = ""
    /\ cfg.collection_prefix = "arl_net_"

---------------------------------------------------------------------------
(* C5.  Constructed with no arguments and no FIREBASE_* variable set, each *)
(* group holds the defaults written in the source, and the default         *)
(* TradingConfig and RLConfig pass validate().                             *)
C5_DefaultsWithoutOverrides ==
    (NoArgObject /\ DOMAIN built.env = {}) =>
      /\ cfg.kind = "FirebaseConfig" =>
           /\ cfg.project_id = "arl-net-default"
           /\ cfg.credential_path = "./config/firebase_credentials.json"
           /\ cfg.database_url = ""
           /\ cfg.collection_prefix = "arl_net_"
      /\ cfg.kind = "TradingConfig" =>
           /\ cfg.initial_balance = Flt(10000000)
           /\ cfg.max_position_size = Flt(100)
           /\ cfg.transaction_cost = Flt(1)
           /\ result \in {NotCalled, Returned}
      /\ cfg.kind = "RLConfig" =>
           /\ cfg.gamma = Flt(990)
           /\ cfg.learning_rate = Flt(1)
           /\ cfg.buffer_size = Flt(10000000)
           /\ result \in {NotCalled, Returned}
      /\ cfg.kind = "NeuroevolutionConfig" =>
           cfg.population_size = Flt(50000)

C5_Witness ==
    /\ NoArgObject
    /\ DOMAIN built.env = {}
    /\ DOMAIN environ = EnvNames
    /\ cfg.kind = "TradingConfig"
    /\ result = Returned

---------------------------------------------------------------------------
(* C9.  The environment is read when a FirebaseConfig is constructed: an   *)
(* object not assigned to since holds, in each field not passed to the     *)
(* constructor, the value its variable had when the constructor ran, and   *)
(* in each field passed explicitly the argument, whatever the environment  *)
(* has become since.                                                       *)
C9_LookupAtConstruction ==
    (built # None /\ cfg.kind = "FirebaseConfig") =>
      \A t \in EnvBacked :
         cfg[t[1]] = IF t[1] \in DOMAIN built.kw THEN built.kw[t[1]]
                     ELSE ValueAt(built.env, t[2], t[3])

C9_Witness ==
    /\ built # None
    /\ cfg.kind = "FirebaseConfig"
    /\ DOMAIN built.kw = {"project_id"}
    /\ built.kw["project_id"] = "my-project"
    /\ built.env = [n \in {"FIREBASE_PROJECT_ID", "FIREBASE_DATABASE_URL"} |->
                      IF n = "FIREBASE_PROJECT_ID" THEN "" ELSE "https://db.example"]
    /\ environ = [n \in {"FIREBASE_CREDENTIAL_PATH"} |-> "/secrets/fb.json"]
    /\ cfg.project_id = "my-project"
    /\ cfg.database_url = "https://db.example"
    /\ cfg.credential_path = "./config/firebase_credentials.json"
    /\ result # NotCalled

---------------------------------------------------------------------------
(* C10.  The fallback applies to an unset variable only.  With             *)
(* FIREBASE_PROJECT_ID set to the empty string a no-argument               *)
(* FirebaseConfig has project_id "" and validate() raises the ValueError   *)
(* of project_id; with the variable unset project_id is "arl-net-default"  *)
(* and that ValueError is not raised.  database_url is never checked: an   *)
(* object with a project_id and an existing credential file passes         *)
(* whatever database_url holds, the empty string included.                 *)
ProjectIdError == Raise("ValueError", "Firebase project_id must be configured")

C10_EmptyIsNotUnset ==
    (built # None /\ cfg.kind = "FirebaseConfig") =>
      /\ (built.kw = NoKwargs /\ ValueAt(built.env, "FIREBASE_PROJECT_ID", "unset") = "") =>
           /\ cfg.project_id = ""
           /\ result \in {NotCalled, ProjectIdError}
      /\ (built.kw = NoKwargs /\ "FIREBASE_PROJECT_ID" \notin DOMAIN built.env) =>
           /\ cfg.project_id = "arl-net-default"
           /\ result # ProjectIdError
      /\ (cfg.project_id # "" /\ cfg.credential_path \in files) =>
           result \in {NotCalled, Returned}

C10_Witness ==
    /\ NoArgObject
    /\ cfg.kind = "FirebaseConfig"
    /\ "FIREBASE_PROJECT_ID" \in DOMAIN built.env
    /\ built.env["FIREBASE_PROJECT_ID"] = ""
    /\ cfg.project_id = ""
    /\ cfg.database_url = ""
    /\ cfg.credential_path \in files
    /\ result = ProjectIdError

====
